---- MODULE Spec2Model ----
(***************************************************************************)
(* Model of the AutoScout24 scraping service: the link discovery engine   *)
(* (app/scraper/link_scraper.py), the pipeline orchestrator                *)
(* (app/scraper/pipeline.py), the store handler                            *)
(* (app/database/mongo_handler.py) and the scheduling / manual trigger     *)
(* layer (app/scheduler.py, app/main.py), the detail fetcher               *)
(* (app/scraper/data_scraper.py) and the normalizer                        *)
(* (app/scraper/data_cleaner.py).  The store handler is modelled a second *)
(* time on its own, from its construction on, operation by operation.     *)
(*                                                                         *)
(* A link is a canonical listing URL, modelled as a number.               *)
(* A link file is the sequence of its lines.  Where the text of a URL      *)
(* matters (link identity) a URL is a sequence of pieces.                  *)
(***************************************************************************)
EXTENDS Integers, Sequences, FiniteSets, TLC

\* ------------------------------------------------------------------ bounds
NLinks == 3
MaxPageLen == 4
MaxTarget == 1
MaxFeedPages == 2
MaxKnown == 2
MaxRuns == 2
MaxRequests == 3
MaxSkipped == 2
MaxUrlLen == 3
MaxUrls == 2
MaxBatch == 41
MaxStored == 2
MaxRows == 3

\* ------------------------------------------------------- program constants
max_pages == 200
SkippedPerPage == 3
TopLinks == 3
max_attempts == 3
checkpoint_every == 20

\* The links the discovery loop reads and the later stages handle.
Links == 1..NLinks

\* The links a source lists, where its pages are kept whole.
SourceLinks == 1..(NLinks + 1)

Range(s) == {s[i] : i \in 1..Len(s)}

Min(a, b) == IF a <= b THEN a ELSE b

InSeq(x, s) == \E i \in 1..Len(s) : s[i] = x

IsUnique(s) == \A i, j \in 1..Len(s) : s[i] = s[j] => i = j

\* What find_vehicle_links_on_page can return: an ordered list of links
\* without duplicates (possibly empty).
FullPages ==
    {q : q \in {p \in UNION {[1..n -> SourceLinks] : n \in 0..MaxPageLen} :
                   IsUnique(p)}}

\* A link in a passed-over position of a page, whichever it is.
Passed == 0

\* The paging loop never reads the entries it passes over (the first
\* SkippedPerPage of a page): what it can tell apart in a page is its length
\* and the entries behind the passed-over ones. Where the page is not kept,
\* Passed stands for each passed-over entry.
LoopPages ==
    {q : q \in {p \in UNION {[1..n -> Links \cup {Passed}] :
                                n \in 0..MaxPageLen} :
        /\ \A i \in 1..Len(p) : (p[i] = Passed) <=> (i <= SkippedPerPage)
        /\ \A i, j \in 1..Len(p) : (p[i] = p[j] /\ p[i] # Passed) => i = j}}

\* The known-link sets tried: by renaming links, the known ones are 1..k.
KnownSets == {1..k : k \in 0..NLinks}

\* The same for the links of a source.
SourceKnownSets == {1..k : k \in 0..(NLinks + 1)}

\* ------------------------------------------------ link discovery: variables
VARIABLES
    existing_links,   \* the KnownLinkSet handed to get_latest_vehicle_links
    target_matches,   \* its target_matches argument
    driver,           \* "none" | "open" | "closed": the browser session
    driver_quits,     \* number of driver.quit() calls
    all_new_links,    \* local all_new_links
    matched_links,    \* local matched_links
    current_page,     \* local current_page
    dpc,              \* position: "init" | "paging" | "retry" | "returned"
    outcome,          \* why the run ended
    result            \* the returned pair <<new_links, matched_links>>

dvars == <<existing_links, target_matches, driver, driver_quits, all_new_links,
           matched_links, current_page, dpc, outcome, result>>

\* --------------------------------------- a whole discovery run: variables
VARIABLES
    src_feed,      \* the source: what each of its pages yields
    src_known,     \* the KnownLinkSet of the run
    src_target,    \* target_matches of the run
    crawl          \* <<>> before the run, <<its result>> after it

cvars == <<src_feed, src_known, src_target, crawl>>

\* ------------------------------------------------- the pipeline: variables
VARIABLES
    main_links_file,    \* abc3.txt: the lines of the known/main links file
    new_links_file,     \* new_links.txt
    latest_links_file,  \* latest_links.txt
    connected,          \* MongoDBHandler.is_connected()
    collection,         \* the vehicle collection: insertions per listing URL
    stats_coll,         \* the scraping_stats collection, in insertion order
    raw_csv,            \* complete_vehicles_*.csv: <<>> or <<its rows>>
    cleaned_csv,        \* cleaned_vehicles_*.csv: <<>> or <<its rows>>
    ppc,                \* position of the current run_full_pipeline call
    run_no,             \* number of run_full_pipeline calls so far
    loaded_links,       \* scrape_links: existing_links of this run
    new_links,          \* scrape_links: new_links of this run
    run_matched,        \* scrape_links: matched_links of this run
    urls,               \* scrape_vehicles: the URLs read from the links file
    stats,              \* the run summary
    mongo_status,       \* status of this run's update_database result
    pending_exc,        \* the exception being handled by the except block
    raised,             \* the exception the call left with, or "none"
    save_calls,         \* save_scraping_stats calls made by this run
    save_result,        \* what the last of them returned
    invoked,            \* the stage functions this run has called, in order
    output_files        \* the steps whose result carries an output_file

pvars == <<main_links_file, new_links_file, latest_links_file, connected,
           collection, stats_coll, raw_csv, cleaned_csv, ppc, run_no,
           loaded_links, new_links, run_matched, urls, stats, mongo_status,
           pending_exc, raised, save_calls, save_result, invoked,
           output_files>>

files == <<main_links_file, new_links_file, latest_links_file>>

run_locals == <<loaded_links, new_links, run_matched, urls>>

\* ------------------------------- scheduler and API triggers: variables
VARIABLES
    job_instances,   \* executing instances of the scheduled scraping job
    fires_skipped,   \* scheduled fires dropped because an instance was running
    bg_pending,      \* background tasks added and not yet started, per kind
    bg_running,      \* background tasks executing in the thread pool, per kind
    requests,        \* manual trigger requests served so far
    last_test_run    \* test_tracker.last_test_run: "none" | "running"

svars == <<job_instances, fires_skipped, bg_pending, bg_running, requests,
           last_test_run>>

\* ------------------------------------------- link identity: variables
VARIABLES
    href,            \* the href attribute of one anchor of a results page
    line,            \* one line of the known links file, stripped
    vehicle_links,   \* find_vehicle_links_on_page: the links it returns
    file_links,      \* load_existing_links: the set it returns
    upc              \* "start" | "done"

uvars == <<href, line, vehicle_links, file_links, upc>>

\* --------------------------------------- the detail fetcher: variables
VARIABLES
    filtered_urls,   \* process_urls_conservatively: the brand-filtered URLs
    url_index,       \* how many of them the loop has taken up
    attempt,         \* scrape_vehicle_data: the attempt argument of the call
    responses,       \* what each request of the current call met
    fetch_result,    \* what the last scrape_vehicle_data call returned
    successful,      \* process_urls_conservatively: successful
    failed,          \* process_urls_conservatively: failed
    temp_files,      \* the i of every temp_results_{i}.csv it has written
    fpc              \* "next" | "call" | "done" | "raised"

fvars == <<filtered_urls, url_index, attempt, responses, fetch_result,
           successful, failed, temp_files, fpc>>

\* ------------------------------------------- the normalizer: variables
VARIABLES
    raw_batch,       \* the rows of the raw CSV file given to clean_data
    columns,         \* the columns that file has
    clean_stats,     \* what clean_data returned for it
    output_rows,     \* the rows of the cleaned CSV file it wrote
    reclean_stats,   \* what clean_data returned for its own output file
    reoutput_rows,   \* the rows of the file written by that second call
    npc              \* "start" | "cleaned" | "recleaned"

nvars == <<raw_batch, columns, clean_stats, output_rows, reclean_stats,
           reoutput_rows, npc>>

\* --------------------------------- the store handler on its own: variables
VARIABLES
    connect_tries,   \* the connections MongoDBHandler tried, each with its end
    op_return,       \* the last operation called on it and what it returned
    hpc              \* "new" (in __init__, before _connect) | "ready"

hvars == <<connect_tries, op_return, hpc>>

\* The components added to the service model: link identity, detail
\* fetcher, normalizer, store handler.
xvars == <<uvars, fvars, nvars, hvars>>

vars == <<dvars, cvars, pvars, svars, xvars>>

\* The per-link loop that appends every link that is not known, without
\* looking whether it was appended before.
RECURSIVE ProcessLinksNoNewCheck(_, _, _, _, _)
ProcessLinksNoNewCheck(i, page_links, existing, new, matched) ==
    IF i > Len(page_links)
    THEN [new |-> new, matched |-> matched]
    ELSE LET link == page_links[i] IN
         IF i <= SkippedPerPage
         THEN ProcessLinksNoNewCheck(i + 1, page_links, existing, new, matched)
         ELSE IF link \in existing
              THEN IF ~InSeq(link, matched)
                   THEN [new |-> Append(new, link),
                         matched |-> Append(matched, link)]
                   ELSE ProcessLinksNoNewCheck(i + 1, page_links, existing,
                                               new, matched)
              ELSE ProcessLinksNoNewCheck(i + 1, page_links, existing,
                                          Append(new, link), matched)

\* The per-link loop of get_latest_vehicle_links over one page, from index i.
\* The first three entries of every page are passed over; a known link that
\* was not matched before is recorded as a match, appended to the new links
\* as well, and ends the loop over the page.
RECURSIVE ProcessLinks(_, _, _, _, _)
ProcessLinks(i, page_links, existing, new, matched) ==
    IF i > Len(page_links)
    THEN [new |-> new, matched |-> matched]
    ELSE LET link == page_links[i] IN
         IF i <= SkippedPerPage
         THEN ProcessLinks(i + 1, page_links, existing, new, matched)
         ELSE IF link \in existing
              THEN IF ~InSeq(link, matched)
                   THEN [new |-> Append(new, link),
                         matched |-> Append(matched, link)]
                   ELSE ProcessLinks(i + 1, page_links, existing, new, matched)
              ELSE IF ~InSeq(link, new)
                   THEN ProcessLinks(i + 1, page_links, existing,
                                     Append(new, link), matched)
                   ELSE ProcessLinks(i + 1, page_links, existing, new, matched)

\* The while condition without its page ceiling.
LoopCondNoCeiling(matched, page, target) == Len(matched) < target

\* while len(matched_links) < target_matches and current_page <= max_pages
LoopCond(matched, page, target) ==
    Len(matched) < target /\ page <= max_pages

\* if len(matched_links) >= target_matches: break
TargetReached(matched, target) == Len(matched) >= target

\* The return without the finally clause: the browser session stays open.
ReturnSessionLeftOpen(why, new, matched) ==
    /\ dpc' = "returned"
    /\ outcome' = why
    /\ result' = <<new, matched>>
    /\ UNCHANGED <<driver, driver_quits>>
    /\ all_new_links' = <<>>
    /\ matched_links' = <<>>
    /\ current_page' = 1

\* return all_new_links, matched_links, after the finally clause closed
\* the browser session. The locals end with the call: they are cleared.
Return(why, new, matched) ==
    /\ dpc' = "returned"
    /\ outcome' = why
    /\ result' = <<new, matched>>
    /\ driver' = "closed"
    /\ driver_quits' = driver_quits + 1
    /\ all_new_links' = <<>>
    /\ matched_links' = <<>>
    /\ current_page' = 1

DiscoveryInit ==
    /\ existing_links \in KnownSets
    /\ target_matches \in 1..MaxTarget
    /\ driver = "none"
    /\ driver_quits = 0
    /\ all_new_links = <<>>
    /\ matched_links = <<>>
    /\ current_page = 1
    /\ dpc = "init"
    /\ outcome = "running"
    /\ result = <<>>

\* driver = self.setup_driver(); a failed setup returns [], [] at once.
SetupDriver ==
    /\ dpc = "init"
    /\ \/ /\ driver' = "open"
          /\ dpc' = "paging"
          /\ UNCHANGED <<outcome, result>>
       \/ /\ driver' = "none"
          /\ dpc' = "returned"
          /\ outcome' = "no_driver"
          /\ result' = <<<<>>, <<>>>>
    /\ UNCHANGED <<existing_links, target_matches, driver_quits, all_new_links,
                   matched_links, current_page>>
    /\ UNCHANGED <<cvars, pvars, svars, xvars>>

\* The classification of one non-empty page and the end of the iteration:
\* break on target, else current_page += 1.
ClassifyPage(page_links) ==
    LET r == ProcessLinks(1, page_links, existing_links, all_new_links,
                          matched_links)
    IN  IF TargetReached(r.matched, target_matches)
        THEN Return("target", r.new, r.matched)
        ELSE /\ all_new_links' = r.new
             /\ matched_links' = r.matched
             /\ current_page' = current_page + 1
             /\ dpc' = "paging"
             /\ UNCHANGED <<outcome, result, driver, driver_quits>>

\* One iteration of the paging loop: load the page, extract its links.
\* An empty extraction leads to the single re-extraction.
FetchPage ==
    /\ dpc = "paging"
    /\ LoopCond(matched_links, current_page, target_matches)
    /\ \E page_links \in LoopPages :
          IF page_links = <<>>
          THEN /\ dpc' = "retry"
               /\ UNCHANGED <<all_new_links, matched_links, current_page,
                              outcome, result, driver, driver_quits>>
          ELSE ClassifyPage(page_links)
    /\ UNCHANGED <<existing_links, target_matches>>
    /\ UNCHANGED <<cvars, pvars, svars, xvars>>

\* The second extraction with a return that drops what was accumulated.
RetryExtractDropsLinks ==
    /\ dpc = "retry"
    /\ \E page_links \in LoopPages :
          IF page_links = <<>>
          THEN Return("no_links", <<>>, <<>>)
          ELSE ClassifyPage(page_links)
    /\ UNCHANGED <<existing_links, target_matches>>
    /\ UNCHANGED <<cvars, pvars, svars, xvars>>

\* The second extraction of the same page; still empty: break.
RetryExtract ==
    /\ dpc = "retry"
    /\ \E page_links \in LoopPages :
          IF page_links = <<>>
          THEN Return("no_links", all_new_links, matched_links)
          ELSE ClassifyPage(page_links)
    /\ UNCHANGED <<existing_links, target_matches>>
    /\ UNCHANGED <<cvars, pvars, svars, xvars>>

\* The while condition is false on entry of an iteration: the loop ends.
ExitLoop ==
    /\ dpc = "paging"
    /\ ~LoopCond(matched_links, current_page, target_matches)
    /\ Return(IF TargetReached(matched_links, target_matches)
              THEN "target" ELSE "ceiling",
              all_new_links, matched_links)
    /\ UNCHANGED <<existing_links, target_matches>>
    /\ UNCHANGED <<cvars, pvars, svars, xvars>>

\* An exception inside the try block (driver.get, execute_script, ...):
\* except Exception returns what was accumulated.
PagingException ==
    /\ dpc \in {"paging", "retry"}
    /\ Return("exception", all_new_links, matched_links)
    /\ UNCHANGED <<existing_links, target_matches>>
    /\ UNCHANGED <<cvars, pvars, svars, xvars>>

DiscoveryNext ==
    \/ SetupDriver
    \/ FetchPage
    \/ RetryExtract
    \/ ExitLoop
    \/ PagingException

\* ------------------------------------- a whole discovery run over one source
\* The crawl as a function of the source: feed[p] is what page p of the
\* source yields (after the re-extraction, when there was one); a page past
\* the end of the feed yields nothing. This is the while loop of
\* get_latest_vehicle_links run to its return with a browser that works.
RECURSIVE CrawlFrom(_, _, _, _, _, _)
CrawlFrom(existing, target, feed, new, matched, page) ==
    IF ~LoopCond(matched, page, target)
    THEN [new |-> new, matched |-> matched, page |-> page,
          why |-> IF TargetReached(matched, target) THEN "target"
                  ELSE "ceiling"]
    ELSE LET page_links == IF page <= Len(feed) THEN feed[page] ELSE <<>> IN
         IF page_links = <<>>
         THEN [new |-> new, matched |-> matched, page |-> page,
               why |-> "no_links"]
         ELSE LET r == ProcessLinks(1, page_links, existing, new, matched) IN
              IF TargetReached(r.matched, target)
              THEN [new |-> r.new, matched |-> r.matched, page |-> page,
                    why |-> "target"]
              ELSE CrawlFrom(existing, target, feed, r.new, r.matched,
                             page + 1)

get_latest_vehicle_links(existing, target, feed) ==
    CrawlFrom(existing, target, feed, <<>>, <<>>, 1)

FeedsOver(P) == UNION {[1..n -> P] : n \in 0..MaxFeedPages}

CrawlInit ==
    /\ src_feed \in FeedsOver(FullPages)
    /\ src_known \in SourceKnownSets
    /\ src_target \in 1..MaxTarget
    /\ crawl = <<>>

RunCrawl ==
    /\ crawl = <<>>
    /\ crawl' = <<get_latest_vehicle_links(src_known, src_target, src_feed)>>
    /\ UNCHANGED <<src_feed, src_known, src_target>>
    /\ UNCHANGED <<dvars, pvars, svars, xvars>>

CrawlNext == RunCrawl

\* The links of the crawled pages, in crawl order.
RECURSIVE Flatten(_, _)
Flatten(feed, n) ==
    IF n = 0 THEN <<>> ELSE Flatten(feed, n - 1) \o feed[n]

Crawled == Flatten(src_feed, IF crawl[1].page <= Len(src_feed)
                             THEN crawl[1].page ELSE Len(src_feed))

\* A newest-first listing: no link is listed twice, and behind the first
\* known link every link is known.
NewestFirst(listing, known) ==
    /\ IsUnique(listing)
    /\ \A i, j \in 1..Len(listing) :
          (i < j /\ listing[i] \in known) => listing[j] \in known

\* ------------------------------------------------ the pipeline orchestrator

\* load_existing_links: the set of the lines of the file. The lines are
\* links as the discovery wrote them (http URLs without a query part), which
\* the normalisation on loading leaves as they are.
load_existing_links(file) == Range(file)

\* new_links without the slice.
TopOfAll(links) == links

\* new_links[:3]
TopOf(links) == SubSeq(links, 1, Min(TopLinks, Len(links)))

\* extract_brand_from_url: the listing is of an allowed brand. The brand is
\* part of the URL; the listing NLinks stands for one of another brand.
HasBrand(link) == link < NLinks

\* The main links files a first run can find: nothing, or links 1..k.
InitMainFiles == {[i \in 1..k |-> i] : k \in 0..Min(MaxKnown, NLinks)}

NewStats == [status |-> "running", error |-> "none", end_time |-> FALSE,
             steps |-> {}]

PipelineInit ==
    /\ main_links_file \in InitMainFiles
    /\ new_links_file = <<>>
    /\ latest_links_file = <<>>
    /\ connected \in BOOLEAN
    /\ collection = [l \in Links |-> 0]
    /\ stats_coll = <<>>
    /\ raw_csv = <<>>
    /\ cleaned_csv = <<>>
    /\ ppc = "idle"
    /\ run_no = 0
    /\ loaded_links = {}
    /\ new_links = <<>>
    /\ run_matched = <<>>
    /\ urls = <<>>
    /\ stats = NewStats
    /\ mongo_status = "none"
    /\ pending_exc = "none"
    /\ raised = "none"
    /\ save_calls = 0
    /\ save_result = "none"
    /\ invoked = <<>>
    /\ output_files = {}

\* run_full_pipeline entered without a new summary: the previous run's
\* summary and position are kept.
StartRunStale ==
    /\ ppc \in {"idle", "returned", "raised"}
    /\ run_no < MaxRuns
    /\ run_no' = run_no + 1
    /\ ppc' = "links"
    /\ UNCHANGED <<files, connected, collection, stats_coll, raw_csv,
                   cleaned_csv, loaded_links, new_links, run_matched, urls,
                   stats, mongo_status, pending_exc, raised, save_calls,
                   save_result, invoked, output_files>>
    /\ UNCHANGED <<dvars, cvars, svars, xvars>>

\* run_full_pipeline is entered: start_time and the running summary.
StartRun ==
    /\ ppc \in {"idle", "returned", "raised"}
    /\ run_no < MaxRuns
    /\ run_no' = run_no + 1
    /\ ppc' = "links"
    /\ stats' = NewStats
    /\ loaded_links' = {}
    /\ new_links' = <<>>
    /\ run_matched' = <<>>
    /\ urls' = <<>>
    /\ mongo_status' = "none"
    /\ pending_exc' = "none"
    /\ raised' = "none"
    /\ save_calls' = 0
    /\ save_result' = "none"
    /\ invoked' = <<>>
    /\ output_files' = {}
    /\ UNCHANGED <<files, connected, collection, stats_coll, raw_csv,
                   cleaned_csv>>
    /\ UNCHANGED <<dvars, cvars, svars, xvars>>

\* scrape_links, given what get_latest_vehicle_links returned: the new-links
\* file is written only when there are new links, the main and the latest
\* file are replaced by the top three of them.
SaveLinks(existing, new, matched) ==
    /\ loaded_links' = existing
    /\ new_links' = new
    /\ run_matched' = matched
    /\ new_links_file' = IF new # <<>> THEN new ELSE new_links_file
    /\ main_links_file' = IF TopOf(new) # <<>> THEN TopOf(new)
                          ELSE main_links_file
    /\ latest_links_file' = IF TopOf(new) # <<>> THEN TopOf(new)
                            ELSE latest_links_file

\* What get_latest_vehicle_links(existing_links, target_matches=1) can
\* return with a browser that started: the triples <<existing_links,
\* new_links, matched_links>> over all sets of existing links and sources.
DiscoveryResults ==
    {LET r == get_latest_vehicle_links(existing, 1, feed)
     IN  <<existing, r.new, r.matched>> :
        existing \in SUBSET Links, feed \in FeedsOver(LoopPages)}

\* Step 1: link_scraper.scrape_links().
ScrapeLinks ==
    /\ ppc = "links"
    /\ LET existing == load_existing_links(main_links_file) IN
       \/ SaveLinks(existing, <<>>, <<>>)      \* the browser did not start
       \/ \E r \in DiscoveryResults :
             /\ r[1] = existing
             /\ SaveLinks(existing, r[2], r[3])
    /\ stats' = [stats EXCEPT !.steps = @ \cup {"link_scraping"}]
    /\ invoked' = Append(invoked, "scrape_links")
    /\ ppc' = "data"
    /\ UNCHANGED output_files
    /\ UNCHANGED <<connected, collection, stats_coll, raw_csv, cleaned_csv,
                   run_no, urls, mongo_status, pending_exc, raised,
                   save_calls, save_result>>
    /\ UNCHANGED <<dvars, cvars, svars, xvars>>

\* The states scrape_links can start from after earlier runs whose cleanup
\* did not run: the latest-links and the new-links file hold what such a
\* run left in them.
LinksInit ==
    /\ main_links_file \in InitMainFiles
    /\ new_links_file \in {<<>>, main_links_file}
    /\ latest_links_file \in {<<>>, main_links_file}
    /\ connected \in BOOLEAN
    /\ collection = [l \in Links |-> 0]
    /\ stats_coll = <<>>
    /\ raw_csv = <<>>
    /\ cleaned_csv = <<>>
    /\ ppc = "idle"
    /\ run_no = 0
    /\ loaded_links = {}
    /\ new_links = <<>>
    /\ run_matched = <<>>
    /\ urls = <<>>
    /\ stats = NewStats
    /\ mongo_status = "none"
    /\ pending_exc = "none"
    /\ raised = "none"
    /\ save_calls = 0
    /\ save_result = "none"
    /\ invoked = <<>>
    /\ output_files = {}

\* Step 1 with get_latest_vehicle_links returning any list of new links
\* without duplicates, of any length up to MaxPageLen, and no match or the
\* last of them as the match.
ScrapeLinksOfAny ==
    /\ ppc = "links"
    /\ \E new \in FullPages :
       \E matched \in {<<>>} \cup (IF new = <<>> THEN {}
                                   ELSE {<<new[Len(new)]>>}) :
          SaveLinks(load_existing_links(main_links_file), new, matched)
    /\ stats' = [stats EXCEPT !.steps = @ \cup {"link_scraping"}]
    /\ invoked' = Append(invoked, "scrape_links")
    /\ ppc' = "data"
    /\ UNCHANGED output_files
    /\ UNCHANGED <<connected, collection, stats_coll, raw_csv, cleaned_csv,
                   run_no, urls, mongo_status, pending_exc, raised,
                   save_calls, save_result>>
    /\ UNCHANGED <<dvars, cvars, svars, xvars>>

LinksNext ==
    \/ StartRun
    \/ ScrapeLinksOfAny

\* if data_stats.get("output_file"): clean_data is the next call, else the
\* final bookkeeping.
AfterFetch(has_output) == IF has_output THEN "clean" ELSE "finish"

\* The orchestrator calling update_database whatever clean_data returned.
AfterCleanUnguarded(has_output) == "mongo"

\* if clean_stats.get("output_file"): update_database is the next call.
AfterClean(has_output) == IF has_output THEN "mongo" ELSE "finish"

\* Step 2: data_scraper.scrape_vehicles(new_links_file). Reading the file
\* and writing the CSV are not guarded: an I/O error leaves the stage as an
\* exception. No URL, no allowed brand or no successful fetch: no output
\* file, and the orchestrator goes on to its final bookkeeping.
ScrapeVehicles ==
    /\ ppc = "data"
    /\ invoked' = Append(invoked, "scrape_vehicles")
    /\ LET filtered == SelectSeq(new_links_file, HasBrand) IN
       \/ /\ pending_exc' = "IOError"
          /\ ppc' = "except"
          /\ UNCHANGED <<urls, stats, raw_csv, output_files>>
       \/ /\ urls' = new_links_file
          /\ stats' = [stats EXCEPT !.steps = @ \cup {"data_scraping"}]
          /\ UNCHANGED pending_exc
          /\ \E scraped \in SUBSET Range(filtered) :
                /\ ppc' = AfterFetch(scraped # {})
                /\ IF scraped = {}
                   THEN UNCHANGED <<raw_csv, output_files>>
                   ELSE /\ raw_csv' = <<scraped>>
                        /\ output_files' = output_files \cup {"data_scraping"}
    /\ UNCHANGED <<files, connected, collection, stats_coll, cleaned_csv,
                   run_no, loaded_links, new_links, run_matched,
                   mongo_status, raised, save_calls, save_result>>
    /\ UNCHANGED <<dvars, cvars, svars, xvars>>

\* Step 3: data_cleaner.clean_data(raw file). Every exception is caught and
\* reported as an error result without output file.
CleanData ==
    /\ ppc = "clean"
    /\ invoked' = Append(invoked, "clean_data")
    /\ stats' = [stats EXCEPT !.steps = @ \cup {"data_cleaning"}]
    /\ \/ /\ ppc' = AfterClean(FALSE)
          /\ UNCHANGED <<cleaned_csv, output_files>>
       \/ \E kept \in SUBSET raw_csv[1] :
             /\ cleaned_csv' = <<kept>>
             /\ output_files' = output_files \cup {"data_cleaning"}
             /\ ppc' = AfterClean(TRUE)
    /\ UNCHANGED <<files, connected, collection, stats_coll, raw_csv, run_no,
                   run_locals, mongo_status, pending_exc, raised, save_calls,
                   save_result>>
    /\ UNCHANGED <<dvars, cvars, svars, xvars>>

\* cleanup_files: empties the latest-links and the new-links file, deletes
\* the cleaned CSV and the other intermediate CSV files.
cleanup_files ==
    /\ latest_links_file' = <<>>
    /\ new_links_file' = <<>>
    /\ cleaned_csv' = <<>>
    /\ raw_csv' = <<>>
    /\ UNCHANGED main_links_file

\* update_database with the cleanup in its exception handlers as well.
UpdateDatabaseCleansOnError ==
    /\ ppc = "mongo"
    /\ invoked' = Append(invoked, "update_database")
    /\ stats' = [stats EXCEPT !.steps = @ \cup {"mongodb_update"}]
    /\ ppc' = "finish"
    /\ \/ /\ ~connected
          /\ mongo_status' = "skipped"
          /\ UNCHANGED <<files, collection, raw_csv, cleaned_csv>>
       \/ /\ connected
          /\ mongo_status' = "error"
          /\ UNCHANGED collection
          /\ cleanup_files
       \/ /\ connected
          /\ cleaned_csv # <<>>
          /\ mongo_status' = "success"
          /\ collection' = [l \in Links |->
                              IF l \in cleaned_csv[1]
                              THEN collection[l] + 1 ELSE collection[l]]
          /\ cleanup_files
    /\ UNCHANGED <<connected, stats_coll, run_no, run_locals, pending_exc,
                   raised, save_calls, save_result, output_files>>
    /\ UNCHANGED <<dvars, cvars, svars, xvars>>

\* Step 4: mongo_handler.update_database(cleaned file, main links file).
UpdateDatabase ==
    /\ ppc = "mongo"
    /\ invoked' = Append(invoked, "update_database")
    /\ stats' = [stats EXCEPT !.steps = @ \cup {"mongodb_update"}]
    /\ ppc' = "finish"
    /\ \/ /\ ~connected
          /\ mongo_status' = "skipped"
          /\ UNCHANGED <<files, collection, raw_csv, cleaned_csv>>
       \/ /\ connected                \* find, read_csv or insert_many raised
          /\ mongo_status' = "error"
          /\ UNCHANGED <<files, collection, raw_csv, cleaned_csv>>
       \/ /\ connected
          /\ cleaned_csv # <<>>
          /\ mongo_status' = "success"
          /\ collection' = [l \in Links |->
                              IF l \in cleaned_csv[1]
                              THEN collection[l] + 1 ELSE collection[l]]
          /\ cleanup_files
    /\ UNCHANGED <<connected, stats_coll, run_no, run_locals, pending_exc,
                   raised, save_calls, save_result, output_files>>
    /\ UNCHANGED <<dvars, cvars, svars, xvars>>

\* save_scraping_stats without its try/except: an insert error leaves it.
SaveScrapingStatsUnguarded(conn, insert_ok) ==
    IF ~conn THEN [ret |-> FALSE, stored |-> FALSE, exc |-> "none"]
    ELSE IF insert_ok THEN [ret |-> TRUE, stored |-> TRUE, exc |-> "none"]
    ELSE [ret |-> FALSE, stored |-> FALSE, exc |-> "PyMongoError"]

\* save_scraping_stats: False when not connected, False when the insert
\* raised (the exception is caught), True when the document was inserted.
SaveScrapingStats(conn, insert_ok) ==
    IF ~conn THEN [ret |-> FALSE, stored |-> FALSE, exc |-> "none"]
    ELSE IF insert_ok THEN [ret |-> TRUE, stored |-> TRUE, exc |-> "none"]
    ELSE [ret |-> FALSE, stored |-> FALSE, exc |-> "none"]

\* The call self.mongo_handler.save_scraping_stats(stats) with summary st.
CallSave(st, s) ==
    /\ save_calls' = save_calls + 1
    /\ save_result' = IF s.ret THEN "True" ELSE "False"
    /\ stats_coll' = IF s.stored
                     THEN Append(stats_coll,
                                 [id |-> run_no, status |-> st.status])
                     ELSE stats_coll

\* The end of the try block: status completed, end time, duration, save,
\* return. An exception leaving save_scraping_stats would enter the except
\* block like any other.
Complete ==
    /\ ppc = "finish"
    /\ \E insert_ok \in BOOLEAN :
          LET st == [stats EXCEPT !.status = "completed", !.end_time = TRUE]
              s == SaveScrapingStats(connected, insert_ok)
          IN  /\ stats' = st
              /\ CallSave(st, s)
              /\ IF s.exc = "none"
                 THEN /\ ppc' = "returned"
                      /\ UNCHANGED pending_exc
                 ELSE /\ ppc' = "except"
                      /\ pending_exc' = s.exc
    /\ UNCHANGED <<files, connected, collection, raw_csv, cleaned_csv, run_no,
                   run_locals, mongo_status, raised, invoked, output_files>>
    /\ UNCHANGED <<dvars, cvars, svars, xvars>>

\* The except block without its save_scraping_stats call.
PipelineFailNoSave ==
    /\ ppc = "except"
    /\ stats' = [stats EXCEPT !.status = "failed", !.error = pending_exc,
                              !.end_time = TRUE]
    /\ raised' = pending_exc
    /\ ppc' = "raised"
    /\ UNCHANGED <<files, connected, collection, stats_coll, raw_csv,
                   cleaned_csv, run_no, run_locals, mongo_status,
                   pending_exc, save_calls, save_result, invoked,
                   output_files>>
    /\ UNCHANGED <<dvars, cvars, svars, xvars>>

\* The except block: status failed, the error text, end time, save, raise.
\* An exception leaving save_scraping_stats here would replace the one
\* being handled.
PipelineFail ==
    /\ ppc = "except"
    /\ \E insert_ok \in BOOLEAN :
          LET st == [stats EXCEPT !.status = "failed", !.error = pending_exc,
                                  !.end_time = TRUE]
              s == SaveScrapingStats(connected, insert_ok)
          IN  /\ stats' = st
              /\ CallSave(st, s)
              /\ raised' = IF s.exc = "none" THEN pending_exc ELSE s.exc
    /\ ppc' = "raised"
    /\ UNCHANGED <<files, connected, collection, raw_csv, cleaned_csv, run_no,
                   run_locals, mongo_status, pending_exc, invoked,
                   output_files>>
    /\ UNCHANGED <<dvars, cvars, svars, xvars>>

PipelineNext ==
    \/ StartRun
    \/ ScrapeLinks
    \/ ScrapeVehicles
    \/ CleanData
    \/ UpdateDatabase
    \/ Complete
    \/ PipelineFail

\* ------------------------------------- scheduler and manual API triggers
max_instances == 1

\* What a background task of the API runs: run_full_pipeline for
\* /api/scrape/trigger (full_pipeline=True) and /api/test/cron-job,
\* run_link_scraping_only for /api/scrape/trigger (full_pipeline=False).
TaskKinds == {"trigger_full", "trigger_links", "cron_test"}

FullKinds == {"trigger_full", "cron_test"}

SchedInit ==
    /\ job_instances = 0
    /\ fires_skipped = 0
    /\ bg_pending = [k \in TaskKinds |-> 0]
    /\ bg_running = [k \in TaskKinds |-> 0]
    /\ requests = 0
    /\ last_test_run = "none"

\* The cron trigger of the job added by _add_scraping_job fires. With
\* max_instances=1 the fire is dropped while an instance is executing.
CronFire ==
    /\ IF job_instances < max_instances
       THEN /\ job_instances' = job_instances + 1
            /\ UNCHANGED fires_skipped
       ELSE /\ fires_skipped < MaxSkipped
            /\ fires_skipped' = fires_skipped + 1
            /\ UNCHANGED job_instances
    /\ UNCHANGED <<bg_pending, bg_running, requests, last_test_run>>
    /\ UNCHANGED <<dvars, cvars, pvars, xvars>>

\* _run_scheduled_scraping returns (it catches what the pipeline raised).
ScheduledRunEnds ==
    /\ job_instances > 0
    /\ job_instances' = job_instances - 1
    /\ UNCHANGED <<fires_skipped, bg_pending, bg_running, requests,
                   last_test_run>>
    /\ UNCHANGED <<dvars, cvars, pvars, xvars>>

\* POST /api/scrape/trigger: background_tasks.add_task(...), no check of
\* what is running.
trigger_scraping ==
    /\ requests < MaxRequests
    /\ requests' = requests + 1
    /\ \E full_pipeline \in BOOLEAN :
          LET k == IF full_pipeline THEN "trigger_full" ELSE "trigger_links"
          IN  bg_pending' = [bg_pending EXCEPT ![k] = @ + 1]
    /\ UNCHANGED <<job_instances, fires_skipped, bg_running, last_test_run>>
    /\ UNCHANGED <<dvars, cvars, pvars, xvars>>

\* POST /api/test/cron-job: records the test run, adds run_full_pipeline.
test_cron_job ==
    /\ requests < MaxRequests
    /\ requests' = requests + 1
    /\ last_test_run' = "running"
    /\ bg_pending' = [bg_pending EXCEPT !["cron_test"] = @ + 1]
    /\ UNCHANGED <<job_instances, fires_skipped, bg_running>>
    /\ UNCHANGED <<dvars, cvars, pvars, xvars>>

\* After the response is sent the task starts in a worker thread.
StartBackgroundTask ==
    /\ \E k \in TaskKinds :
          /\ bg_pending[k] > 0
          /\ bg_pending' = [bg_pending EXCEPT ![k] = @ - 1]
          /\ bg_running' = [bg_running EXCEPT ![k] = @ + 1]
    /\ UNCHANGED <<job_instances, fires_skipped, requests, last_test_run>>
    /\ UNCHANGED <<dvars, cvars, pvars, xvars>>

BackgroundTaskEnds ==
    /\ \E k \in TaskKinds :
          /\ bg_running[k] > 0
          /\ bg_running' = [bg_running EXCEPT ![k] = @ - 1]
    /\ UNCHANGED <<job_instances, fires_skipped, bg_pending, requests,
                   last_test_run>>
    /\ UNCHANGED <<dvars, cvars, pvars, xvars>>

\* run_full_pipeline calls executing now.
PipelineRunsExecuting ==
    job_instances + bg_running["trigger_full"] + bg_running["cron_test"]

SchedNext ==
    \/ CronFire
    \/ ScheduledRunEnds
    \/ trigger_scraping
    \/ test_cron_job
    \/ StartBackgroundTask
    \/ BackgroundTaskEnds

\* ------------------------------------------------------------ link identity
\* A URL as text: a sequence of pieces.  Host is the scheme and host of the
\* site, Offers the path segment of a listing, "?" the query separator and
\* "x" any other run of characters.
Host == "https://www.autoscout24.be"
Offers == "/offres/"
UrlPieces == {Host, Offers, "?", "x"}

Texts == {t : t \in UNION {[1..n -> UrlPieces] : n \in 0..MaxUrlLen}}

\* re.sub(r'\?.*$', '', text): the text without its leftmost "?" and all
\* that follows it.
RECURSIVE StripQuery(_)
StripQuery(text) ==
    IF text = <<>> \/ Head(text) = "?"
    THEN <<>>
    ELSE <<Head(text)>> \o StripQuery(Tail(text))

\* link.startswith('http')
StartsWithHttp(text) == text # <<>> /\ Head(text) = Host

\* load_existing_links on one stripped line of the file.
LoadLine(l) ==
    IF l # <<>> /\ StartsWithHttp(l) THEN {StripQuery(l)} ELSE {}

\* find_vehicle_links_on_page on one anchor, query kept as found.
FindVehicleLinksRaw(h) ==
    IF InSeq(Offers, h) /\ InSeq(Host, h) THEN <<h>> ELSE <<>>

\* find_vehicle_links_on_page on one anchor of a loaded page.
FindVehicleLinks(h) ==
    IF InSeq(Offers, h) /\ InSeq(Host, h) THEN <<StripQuery(h)>> ELSE <<>>

UrlInit ==
    /\ href \in Texts
    /\ line \in Texts
    /\ vehicle_links = <<>>
    /\ file_links = {}
    /\ upc = "start"

UrlIdle ==
    /\ href = <<>>
    /\ line = <<>>
    /\ vehicle_links = <<>>
    /\ file_links = {}
    /\ upc = "start"

\* The known links file is loaded, then the page's anchor is read.
ExtractAndLoad ==
    /\ upc = "start"
    /\ file_links' = LoadLine(line)
    /\ vehicle_links' = FindVehicleLinks(href)
    /\ upc' = "done"
    /\ UNCHANGED <<href, line>>
    /\ UNCHANGED <<dvars, cvars, pvars, svars, fvars, nvars,
                   hvars>>

UrlNext == ExtractAndLoad

\* ---------------------------------------------------------- detail fetcher
\* What one session.get(url, timeout=15) can meet: a status code, a
\* timeout, a request exception raised by raise_for_status ("HTTPError",
\* which carries the response), one raised without a response
\* ("ConnectionError"), or a page whose parsing raises ("ParseError").
Outcomes == {"200", "429", "403", "HTTPError", "Timeout", "ConnectionError",
             "ParseError"}

\* e.response of a caught RequestException: None unless the exception was
\* built from a response.
HasResponse(o) == o = "HTTPError"

\* attempt <= max_attempts: one retry more than the code allows.
RetryAllowedOnceMore(a) == a <= max_attempts

\* attempt < max_attempts
RetryAllowed(a) == a < max_attempts

\* The body of scrape_vehicle_data with a Timeout handler that calls again
\* whatever the attempt.
ScrapeStepTimeoutUnbounded(o, a) ==
    CASE o = "429" -> IF RetryAllowed(a) THEN "retry" ELSE "None"
      [] o = "403" -> "None"
      [] o = "200" -> "results"
      [] o = "Timeout" -> "retry"
      [] o \in {"HTTPError", "ConnectionError"} ->
            IF a < max_attempts
            THEN IF HasResponse(o) THEN "None" ELSE "AttributeError"
            ELSE "None"
      [] o = "ParseError" -> "None"

\* One pass through the body of scrape_vehicle_data for a URL of an allowed
\* brand: "retry" is the recursive call with attempt + 1, "None" and
\* "results" are its return values, "AttributeError" is the exception
\* raised inside the RequestException handler when e.response is None.
ScrapeStep(o, a) ==
    CASE o = "429" -> IF RetryAllowed(a) THEN "retry" ELSE "None"
      [] o = "403" -> "None"
      [] o = "200" -> "results"
      [] o = "Timeout" -> IF RetryAllowed(a) THEN "retry" ELSE "None"
      [] o \in {"HTTPError", "ConnectionError"} ->
            IF a < max_attempts
            THEN IF HasResponse(o) THEN "None" ELSE "AttributeError"
            ELSE "None"
      [] o = "ParseError" -> "None"

\* What a listing page can hold: each item found or not, and a title that
\* names an allowed brand or not.
PageItems == {"title", "subtitle", "price", "mileage", "transmission",
              "emission_class", "fuel", "year", "co2", "warranty"}

TitleKinds == {"absent", "allowed", "other"}

Pages == {pg : pg \in [found : SUBSET (PageItems \ {"title"}),
                       title : TitleKinds]}

Found(page, item) ==
    IF item = "title" THEN page.title # "absent" ELSE item \in page.found

\* An extraction helper that returns null for an item it does not find.
ExtractOrNull(page, item) == IF Found(page, item) THEN "text" ELSE "null"

\* extract_by_class, extract_specific_element, extract_emission_class,
\* extract_co2_emissions: the text of the item, 'nd' when it is not found
\* or the lookup raised.
Extract(page, item) == IF Found(page, item) THEN "text" ELSE "nd"

\* The brand matched against allowed_brands: no allowed brand contains or
\* is contained in 'nd', so a missing title gives 'Unknown'.
MatchedBrand(page) == IF page.title = "allowed" THEN "Brand" ELSE "Unknown"

\* The results dictionary, key by key in the order of the assignments.
BuildResults(page) ==
    LET title == Extract(page, "title")
        subtitle == Extract(page, "subtitle")
        price_raw == Extract(page, "price")
        mileage == Extract(page, "mileage")
        year == Extract(page, "year")
        emission == Extract(page, "emission_class")
    IN  ("title" :> title)
        @@ ("subtitle" :> subtitle)
        @@ ("price_raw" :> price_raw)
        @@ ("price_eur" :> price_raw)
        @@ ("mileage" :> mileage)
        @@ ("transmission" :> Extract(page, "transmission"))
        @@ ("emission_class" :> emission)
        @@ ("fuel" :> Extract(page, "fuel"))
        @@ ("year" :> year)
        @@ ("general_information__BRAND" :> MatchedBrand(page))
        @@ ("general_information__model" :> title)
        @@ ("energy_consumption__emission_class" :> emission)
        @@ ("energy_consumption__co2_emissions" :> Extract(page, "co2"))
        @@ ("general_information__warranty" :> Extract(page, "warranty"))
        @@ ("vehicle_history__mileage" :> mileage)
        @@ ("vehicle_history__year" :> year)
        @@ ("link" :> "url")
        @@ ("date" :> "today")
        @@ ("general_information__subtitle" :> subtitle)

\* What a call left other than a results dictionary: "none" while it runs,
\* "None" returned, or the name of the exception it raised.
NoResult(k) == [kind |-> k, value |-> <<>>]

FetchInit ==
    /\ filtered_urls \in {[i \in 1..n |-> i] : n \in 0..MaxUrls}
    /\ url_index = 0
    /\ attempt = 0
    /\ responses = <<>>
    /\ fetch_result = NoResult("none")
    /\ successful = 0
    /\ failed = 0
    /\ temp_files = {}
    /\ fpc = "next"

FetchIdle ==
    /\ filtered_urls = <<>>
    /\ url_index = 0
    /\ attempt = 0
    /\ responses = <<>>
    /\ fetch_result = NoResult("none")
    /\ successful = 0
    /\ failed = 0
    /\ temp_files = {}
    /\ fpc = "next"

\* The loop takes up the next URL: result = self.scrape_vehicle_data(url).
CallScrape ==
    /\ fpc = "next"
    /\ url_index < Len(filtered_urls)
    /\ url_index' = url_index + 1
    /\ attempt' = 1
    /\ responses' = <<>>
    /\ fetch_result' = NoResult("none")
    /\ fpc' = "call"
    /\ UNCHANGED <<filtered_urls, successful, failed, temp_files>>
    /\ UNCHANGED <<dvars, cvars, pvars, svars, uvars, nvars,
                   hvars>>

\* The test for the intermediate results on the count of the results.
CheckpointOnResults(i, results) ==
    results > 0 /\ results % checkpoint_every = 0

\* if i % 20 == 0 and all_results: i counts the URLs taken up, all_results
\* holds one entry for each successful call.
Checkpoint(i, results) == i % checkpoint_every = 0 /\ results > 0

\* The end of an iteration of the loop: when the test for the intermediate
\* results holds, temp_results_{i}.csv is written and the loop sleeps ten
\* seconds more.
SaveIntermediate(i, results) ==
    temp_files' = IF Checkpoint(i, results)
                  THEN temp_files \cup {i} ELSE temp_files

\* One request of the call and what the code does with its outcome: the
\* recursive call, or the return to the loop, which counts the result and
\* ends the iteration, or the exception, which neither scrape_vehicle_data
\* nor the loop catches.
Request ==
    /\ fpc = "call"
    /\ \E o \in Outcomes, page \in Pages :
          LET step == ScrapeStep(o, attempt) IN
          /\ responses' = Append(responses, o)
          /\ CASE step = "retry" ->
                    /\ attempt' = attempt + 1
                    /\ UNCHANGED <<fetch_result, successful, failed,
                                   temp_files, fpc>>
               [] step = "None" ->
                    /\ fetch_result' = NoResult("None")
                    /\ failed' = failed + 1
                    /\ SaveIntermediate(url_index, successful)
                    /\ fpc' = "next"
                    /\ UNCHANGED <<attempt, successful>>
               [] step = "results" ->
                    /\ fetch_result' = [kind |-> "results",
                                        value |-> BuildResults(page)]
                    /\ successful' = successful + 1
                    /\ SaveIntermediate(url_index, successful + 1)
                    /\ fpc' = "next"
                    /\ UNCHANGED <<attempt, failed>>
               [] step = "AttributeError" ->
                    /\ fetch_result' = NoResult("AttributeError")
                    /\ fpc' = "raised"
                    /\ UNCHANGED <<attempt, successful, failed, temp_files>>
    /\ UNCHANGED <<filtered_urls, url_index>>
    /\ UNCHANGED <<dvars, cvars, pvars, svars, uvars, nvars,
                   hvars>>

\* The loop is over: the DataFrame of the results is returned.
FinishBatch ==
    /\ fpc = "next"
    /\ url_index = Len(filtered_urls)
    /\ fpc' = "done"
    /\ UNCHANGED <<filtered_urls, url_index, attempt, responses,
                   fetch_result, successful, failed, temp_files>>
    /\ UNCHANGED <<dvars, cvars, pvars, svars, uvars, nvars,
                   hvars>>

FetchNext ==
    \/ CallScrape
    \/ Request
    \/ FinishBatch

\* The batches of the loop taken one iteration at a time: up to MaxBatch
\* URLs of allowed brands.
BatchInit ==
    /\ filtered_urls \in {[i \in 1..n |-> i] : n \in 0..MaxBatch}
    /\ url_index = 0
    /\ attempt = 0
    /\ responses = <<>>
    /\ fetch_result = NoResult("none")
    /\ successful = 0
    /\ failed = 0
    /\ temp_files = {}
    /\ fpc = "next"

\* One iteration of the loop as a whole: the call of scrape_vehicle_data
\* returns a results dictionary or None, or raises; the result is counted
\* and the iteration ends with the test for the intermediate results.
ProcessUrl ==
    /\ fpc = "next"
    /\ url_index < Len(filtered_urls)
    /\ url_index' = url_index + 1
    /\ \E ret \in {"results", "None", "AttributeError"} :
          /\ fetch_result' = [kind |-> ret, value |-> <<>>]
          /\ CASE ret = "results" ->
                    /\ successful' = successful + 1
                    /\ SaveIntermediate(url_index + 1, successful + 1)
                    /\ fpc' = "next"
                    /\ UNCHANGED failed
               [] ret = "None" ->
                    /\ failed' = failed + 1
                    /\ SaveIntermediate(url_index + 1, successful)
                    /\ fpc' = "next"
                    /\ UNCHANGED successful
               [] ret = "AttributeError" ->
                    /\ fpc' = "raised"
                    /\ UNCHANGED <<successful, failed, temp_files>>
    /\ UNCHANGED <<filtered_urls, attempt, responses>>
    /\ UNCHANGED <<dvars, cvars, pvars, svars, uvars, nvars,
                   hvars>>

BatchNext ==
    \/ ProcessUrl
    \/ FinishBatch

\* -------------------------------------------------------------- normalizer
\* A cell of a CSV column as pandas reads it: "text" is a string holding the
\* digits of n among other characters ("€20000", "100000 km", "05/2015",
\* "120 g/km"), "nd" the sentinel, "int" and "float" a number of a numeric
\* column ("20000" and "20000.0" in the file), "num" a CO2 value in halves
\* of a gram.  NaN stands for a missing number.
NaN == -1

Text(n) == [k |-> "text", n |-> n]

Nd == [k |-> "nd", n |-> NaN]

\* astype(str).str.replace(r"[^\d]", "") and pd.to_numeric(errors="coerce"):
\* the digits of the cell read as one number.  The text of a float carries
\* the digit after its decimal point.
Digits(cell) ==
    CASE cell.k = "text" -> cell.n
      [] cell.k = "int" -> cell.n
      [] cell.k = "float" -> IF cell.n = NaN THEN NaN ELSE 10 * cell.n
      [] cell.k = "nd" -> NaN

\* clean_price with the test for a trailing "5" only.
clean_price_last_digit(x) ==
    IF x = NaN THEN NaN
    ELSE IF x % 10 = 5
         THEN IF x \div 10 = 0 THEN NaN ELSE x \div 10
         ELSE x

\* clean_price: a trailing "15", else a trailing "5", is cut off the digits.
clean_price(x) ==
    IF x = NaN THEN NaN
    ELSE IF x % 100 = 15
         THEN IF x \div 100 = 0 THEN NaN ELSE x \div 100
         ELSE IF x % 10 = 5
              THEN IF x \div 10 = 0 THEN NaN ELSE x \div 10
              ELSE x

\* A price filter with the upper limit only.
PriceBelowCeiling(x) == x <= 150000

\* df["price"].ge(5000) & df["price"].le(150000); false for a missing price.
PriceInRange(x) == x # NaN /\ x >= 5000 /\ x <= 150000

\* The PRICE and PRICE RANGE sections.  Without a price column df.get gives
\* an empty series and every price is missing.
PriceStep(rows, cols) ==
    LET conv == [i \in 1..Len(rows) |->
                   [rows[i] EXCEPT !.price =
                       [k |-> "float",
                        n |-> IF "price" \in cols
                              THEN clean_price(Digits(@)) ELSE NaN]]]
    IN  SelectSeq(conv, LAMBDA r : PriceInRange(r.price.n))

\* df["transmission"].replace({...})
ReplaceTransmission(t) ==
    CASE t = "Automatic transmission" -> "automatic"
      [] t = "Manual transmission" -> "manual"
      [] OTHER -> t

\* The TRANSMISSION section.
TransmissionStep(rows, cols) ==
    IF "transmission" \notin cols THEN rows
    ELSE LET conv == [i \in 1..Len(rows) |->
                        [rows[i] EXCEPT !.transmission =
                                            ReplaceTransmission(@)]]
         IN  SelectSeq(conv,
                       LAMBDA r : r.transmission \in {"automatic", "manual"})

\* The dtype of a numeric column: float64 as soon as one value is missing.
NumKind(nums) ==
    IF \E i \in 1..Len(nums) : nums[i] = NaN THEN "float" ELSE "int"

\* The MILEAGE section.
MileageStep(rows, cols) ==
    IF "mileage" \notin cols THEN rows
    ELSE LET nums == [i \in 1..Len(rows) |-> Digits(rows[i].mileage)]
             conv == [i \in 1..Len(rows) |->
                        [rows[i] EXCEPT !.mileage =
                            [k |-> NumKind(nums), n |-> nums[i]]]]
         IN  SelectSeq(conv,
                       LAMBDA r : r.mileage.n # NaN /\ r.mileage.n < 200000)

\* pd.to_datetime(text, errors="coerce", dayfirst=True).dt.year: the year of
\* a date text, nothing for the sentinel.  The text of a float year
\* ("2015.0") is no date format: float_year tells whether the date parser
\* reads the year out of it.
ParseYear(cell, float_year) ==
    CASE cell.k = "text" -> cell.n
      [] cell.k = "int" -> cell.n
      [] cell.k = "float" -> IF float_year THEN cell.n ELSE NaN
      [] cell.k = "nd" -> NaN

\* The YEAR section, the column being there.
YearStep(rows, float_year) ==
    LET nums == [i \in 1..Len(rows) |-> ParseYear(rows[i].year, float_year)]
        conv == [i \in 1..Len(rows) |->
                   [rows[i] EXCEPT !.year =
                       [k |-> NumKind(nums), n |-> nums[i]]]]
    IN  SelectSeq(conv, LAMBDA r : r.year.n # NaN /\ r.year.n >= 2010)

\* str.extract(r"(\d+)") and pd.to_numeric: the first run of digits, in
\* grams.
FirstNumber(cell) ==
    CASE cell.k = "text" -> cell.n
      [] cell.k = "num" -> IF cell.n = NaN THEN NaN ELSE cell.n \div 2
      [] cell.k = "nd" -> NaN

\* The k-th smallest of the numbers of a non-empty sequence.
KthSmallest(nums, k) ==
    CHOOSE v \in Range(nums) :
        /\ Cardinality({i \in 1..Len(nums) : nums[i] < v}) < k
        /\ k <= Cardinality({i \in 1..Len(nums) : nums[i] <= v})

\* df["co2"].median(), in halves of a gram: missing values are left out,
\* and the median of no value is missing.
Median2(nums) ==
    LET known == SelectSeq(nums, LAMBDA v : v # NaN)
        m == Len(known)
    IN  IF m = 0 THEN NaN
        ELSE IF m % 2 = 1 THEN 2 * KthSmallest(known, (m + 1) \div 2)
        ELSE KthSmallest(known, m \div 2) + KthSmallest(known, m \div 2 + 1)

\* The CO2 section: missing values take the median of the rows that are
\* left at this point.
Co2Step(rows, cols) ==
    IF "co2" \notin cols THEN rows
    ELSE LET nums == [i \in 1..Len(rows) |-> FirstNumber(rows[i].co2)]
             conv == [i \in 1..Len(rows) |->
                        [rows[i] EXCEPT !.co2 =
                            [k |-> "num",
                             n |-> IF nums[i] = NaN THEN Median2(nums)
                                   ELSE 2 * nums[i]]]]
         IN  SelectSeq(conv, LAMBDA r : r.co2.n # NaN /\ r.co2.n <= 600)

allowed_emission_classes == {"euro 6", "euro 5", "euro 6d", "euro 6d-temp",
                             "euro 6c", "euro 6e", "euro 6b"}

\* astype(str).str.lower().str.strip()
LowerStrip(e) ==
    CASE e = "Euro 6" -> "euro 6"
      [] e = "Euro 6d " -> "euro 6d"
      [] e = "Euro 4" -> "euro 4"
      [] OTHER -> e

\* The EMISSION CLASS section.
EmissionStep(rows, cols) ==
    IF "emission_class" \notin cols THEN rows
    ELSE LET conv == [i \in 1..Len(rows) |->
                        [rows[i] EXCEPT !.emission_class = LowerStrip(@)]]
         IN  SelectSeq(conv,
                 LAMBDA r : r.emission_class \in allowed_emission_classes)

\* The columns whose sections set the counter that the statistics read.
CountedColumns == {"transmission", "mileage", "co2", "emission_class"}

FilterColumns == {"price", "year"} \cup CountedColumns

\* clean_data(input_file).  df["year"] of a file without that column raises
\* KeyError; the statistics name transmission_filtered, mileage_filtered,
\* co2_filtered and emission_filtered, which are bound only in the sections
\* of columns that are there, after to_csv has written the output.  Every
\* exception ends in the error result, which has no output_file.
clean_data(rows, cols, float_year) ==
    LET r1 == PriceStep(rows, cols)
        r2 == TransmissionStep(r1, cols)
        r3 == MileageStep(r2, cols)
    IN  IF "year" \notin cols
        THEN [status |-> "error", output_file |-> FALSE, written |-> <<>>]
        ELSE LET r4 == YearStep(r3, float_year)
                 r5 == Co2Step(r4, cols)
                 r6 == EmissionStep(r5, cols)
             IN  IF CountedColumns \subseteq cols
                 THEN [status |-> "success", output_file |-> TRUE,
                       written |-> r6]
                 ELSE [status |-> "error", output_file |-> FALSE,
                       written |-> r6]

\* The raw rows the batches are made of: one row every filter keeps, and
\* the rows that differ from it in one cell.
GoodRow == [price |-> Text(20000),
            transmission |-> "Automatic transmission",
            mileage |-> Text(100000),
            year |-> Text(2015),
            co2 |-> Text(120),
            emission_class |-> "Euro 6"]

PriceCells == <<Nd, Text(4999), Text(5000), Text(150000), Text(150001),
                Text(50005), Text(500015), Text(125555), Text(2999915),
                Text(45)>>

TransmissionCells == <<"manual", "Manual transmission", "Semi-automatic",
                       "nd">>

MileageCells == <<Nd, Text(199999), Text(200000)>>

YearCells == <<Nd, Text(2009), Text(2010)>>

Co2Cells == <<Nd, Text(300), Text(301), Text(95)>>

EmissionCells == <<"Euro 6d ", "Euro 4", "nd">>

RowKinds ==
    <<GoodRow>>
    \o [i \in 1..Len(PriceCells) |-> [GoodRow EXCEPT !.price = PriceCells[i]]]
    \o [i \in 1..Len(TransmissionCells) |->
           [GoodRow EXCEPT !.transmission = TransmissionCells[i]]]
    \o [i \in 1..Len(MileageCells) |->
           [GoodRow EXCEPT !.mileage = MileageCells[i]]]
    \o [i \in 1..Len(YearCells) |-> [GoodRow EXCEPT !.year = YearCells[i]]]
    \o [i \in 1..Len(Co2Cells) |-> [GoodRow EXCEPT !.co2 = Co2Cells[i]]]
    \o [i \in 1..Len(EmissionCells) |->
           [GoodRow EXCEPT !.emission_class = EmissionCells[i]]]

\* A raw row of the file: its cells and its line number.
RawRow(kind, line_no) ==
    [id |-> line_no,
     price |-> RowKinds[kind].price,
     transmission |-> RowKinds[kind].transmission,
     mileage |-> RowKinds[kind].mileage,
     year |-> RowKinds[kind].year,
     co2 |-> RowKinds[kind].co2,
     emission_class |-> RowKinds[kind].emission_class]

\* The raw files: one to MaxRows rows.  No step of clean_data depends on the
\* order of the rows, so one order stands for all of them.
KindLists ==
    {q : q \in {ks \in UNION {[1..m -> 1..Len(RowKinds)] : m \in 1..MaxRows} :
                   \A i \in 1..(Len(ks) - 1) : ks[i] <= ks[i + 1]}}

RawBatches == {[i \in 1..Len(ks) |-> RawRow(ks[i], i)] : ks \in KindLists}

\* The raw files have every column or lack one of them.
ColumnSets == {FilterColumns} \cup {FilterColumns \ {c} : c \in FilterColumns}

NoStats == [status |-> "none", output_file |-> FALSE, written |-> <<>>]

CleanInit ==
    /\ raw_batch \in RawBatches
    /\ columns \in ColumnSets
    /\ clean_stats = NoStats
    /\ output_rows = <<>>
    /\ reclean_stats = NoStats
    /\ reoutput_rows = <<>>
    /\ npc = "start"

CleanIdle ==
    /\ raw_batch = <<>>
    /\ columns = FilterColumns
    /\ clean_stats = NoStats
    /\ output_rows = <<>>
    /\ reclean_stats = NoStats
    /\ reoutput_rows = <<>>
    /\ npc = "start"

\* clean_data on the raw file.
CleanBatch ==
    /\ npc = "start"
    /\ LET res == clean_data(raw_batch, columns, TRUE) IN
          /\ clean_stats' = res
          /\ output_rows' = res.written
    /\ npc' = "cleaned"
    /\ UNCHANGED <<raw_batch, columns, reclean_stats, reoutput_rows>>
    /\ UNCHANGED <<dvars, cvars, pvars, svars, uvars, fvars,
                   hvars>>

\* clean_data on the output file of the first call.
CleanAgain ==
    /\ npc = "cleaned"
    /\ clean_stats.output_file
    /\ \E float_year \in BOOLEAN :
          LET res == clean_data(output_rows, columns, float_year) IN
          /\ reclean_stats' = res
          /\ reoutput_rows' = res.written
    /\ npc' = "recleaned"
    /\ UNCHANGED <<raw_batch, columns, clean_stats, output_rows>>
    /\ UNCHANGED <<dvars, cvars, pvars, svars, uvars, fvars,
                   hvars>>

CleanNext ==
    \/ CleanBatch
    \/ CleanAgain

\* ------------------------------------------------- the store handler alone
\* A MongoDBHandler from its construction on, with the operations called on
\* it in any order.  The store and the files are the variables of the
\* pipeline; connected stands for self.client, None or a client.
NoReturn == [op |-> "none", value |-> "none"]

\* __init__ up to the call of _connect: self.client = None.  The files and
\* the store are what earlier runs can have left.
StoreInit ==
    /\ connect_tries = <<>>
    /\ op_return = NoReturn
    /\ hpc = "new"
    /\ main_links_file \in InitMainFiles
    /\ new_links_file \in {<<>>, main_links_file}
    /\ latest_links_file \in {<<>>, main_links_file}
    /\ connected = FALSE
    /\ collection = [l \in Links |-> 0]
    /\ stats_coll = <<>>
    /\ raw_csv \in {<<>>, <<{1}>>}
    /\ cleaned_csv \in {<<>>, <<{1}>>}
    /\ ppc = "idle"
    /\ run_no = 0
    /\ loaded_links = {}
    /\ new_links = <<>>
    /\ run_matched = <<>>
    /\ urls = <<>>
    /\ stats = NewStats
    /\ mongo_status = "none"
    /\ pending_exc = "none"
    /\ raised = "none"
    /\ save_calls = 0
    /\ save_result = "none"
    /\ invoked = <<>>
    /\ output_files = {}

StoreIdle ==
    /\ connect_tries = <<>>
    /\ op_return = NoReturn
    /\ hpc = "new"

\* What the handler leaves alone in every operation but update_database
\* and save_scraping_stats.
StoreKept ==
    UNCHANGED <<files, collection, stats_coll, raw_csv, cleaned_csv>>

PipelineKept ==
    UNCHANGED <<ppc, run_no, run_locals, stats, mongo_status, pending_exc,
                raised, save_calls, save_result, invoked, output_files>>

\* _connect: the TLS connection and its ping; when that raises,
\* _try_fallback_connection, which connects without TLS or sets the client
\* to None.
connect ==
    /\ hpc = "new"
    /\ \E tls_ok, fallback_ok \in BOOLEAN :
          IF tls_ok
          THEN /\ connect_tries' = <<[mode |-> "tls", ok |-> TRUE]>>
               /\ connected' = TRUE
          ELSE /\ connect_tries' = <<[mode |-> "tls", ok |-> FALSE],
                                     [mode |-> "fallback", ok |-> fallback_ok]>>
               /\ connected' = fallback_ok
    /\ hpc' = "ready"
    /\ StoreKept /\ PipelineKept
    /\ UNCHANGED op_return
    /\ UNCHANGED <<dvars, cvars, svars, uvars, fvars, nvars>>

\* A handler that takes itself for connected whatever its client.
is_connected_always == TRUE

\* is_connected: self.client is not None
is_connected == connected

\* update_database called on the handler.
update_database ==
    /\ hpc = "ready"
    /\ \/ /\ ~is_connected
          /\ op_return' = [op |-> "update_database", value |-> "skipped"]
          /\ StoreKept
       \/ /\ is_connected             \* find, read_csv or insert_many raised
          /\ op_return' = [op |-> "update_database", value |-> "error"]
          /\ StoreKept
       \/ /\ is_connected
          /\ cleaned_csv # <<>>
          /\ op_return' = [op |-> "update_database", value |-> "success"]
          /\ collection' = [l \in Links |->
                              IF l \in cleaned_csv[1]
                              THEN collection[l] + 1 ELSE collection[l]]
          /\ cleanup_files
          /\ UNCHANGED stats_coll
    /\ PipelineKept
    /\ UNCHANGED <<connected, connect_tries, hpc>>
    /\ UNCHANGED <<dvars, cvars, svars, uvars, fvars, nvars>>

\* save_scraping_stats called on the handler.
save_scraping_stats ==
    /\ hpc = "ready"
    /\ Len(stats_coll) < MaxStored
    /\ \/ /\ ~is_connected
          /\ op_return' = [op |-> "save_scraping_stats", value |-> "False"]
          /\ UNCHANGED stats_coll
       \/ /\ is_connected                          \* insert_one raised
          /\ op_return' = [op |-> "save_scraping_stats", value |-> "False"]
          /\ UNCHANGED stats_coll
       \/ /\ is_connected
          /\ op_return' = [op |-> "save_scraping_stats", value |-> "True"]
          /\ stats_coll' = Append(stats_coll,
                                  [id |-> Len(stats_coll) + 1,
                                   status |-> "completed"])
    /\ UNCHANGED <<files, collection, raw_csv, cleaned_csv>>
    /\ PipelineKept
    /\ UNCHANGED <<connected, connect_tries, hpc>>
    /\ UNCHANGED <<dvars, cvars, svars, uvars, fvars, nvars>>

\* A reading operation: its value when the handler is not connected, when
\* the query raised, and when it was answered.
Reading(name, disconnected, failed_value, answer) ==
    /\ hpc = "ready"
    /\ \/ /\ ~is_connected
          /\ op_return' = [op |-> name, value |-> disconnected]
       \/ /\ is_connected
          /\ op_return' = [op |-> name, value |-> failed_value]
       \/ /\ is_connected
          /\ op_return' = [op |-> name, value |-> answer]
    /\ StoreKept /\ PipelineKept
    /\ UNCHANGED <<connected, connect_tries, hpc>>
    /\ UNCHANGED <<dvars, cvars, svars, uvars, fvars, nvars>>

\* get_latest_scrape_stats: None, or the latest document.
get_latest_scrape_stats ==
    Reading("get_latest_scrape_stats", "None", "None",
            IF stats_coll = <<>> THEN "None" ELSE "document")

\* get_scraping_stats: [], or the list of the days.
get_scraping_stats ==
    Reading("get_scraping_stats", "[]", "[]",
            IF stats_coll = <<>> THEN "[]" ELSE "list")

\* get_collection_stats: connected False with a message or an error, or
\* connected True with the counts.
get_collection_stats ==
    Reading("get_collection_stats", "not connected", "error", "counts")

StoreNext ==
    \/ connect
    \/ update_database
    \/ save_scraping_stats
    \/ get_latest_scrape_stats
    \/ get_scraping_stats
    \/ get_collection_stats

\* ------------------------------------------------------------ specifications

\* The parts a specification does not exercise stay as constructed.
DiscoveryIdle ==
    /\ existing_links = {}
    /\ target_matches = 1
    /\ driver = "none"
    /\ driver_quits = 0
    /\ all_new_links = <<>>
    /\ matched_links = <<>>
    /\ current_page = 1
    /\ dpc = "init"
    /\ outcome = "running"
    /\ result = <<>>

CrawlIdle ==
    /\ src_feed = <<>>
    /\ src_known = {}
    /\ src_target = 1
    /\ crawl = <<>>

PipelineIdle ==
    /\ PipelineInit
    /\ main_links_file = <<>>
    /\ connected = FALSE

\* The added components as constructed.
ExtraIdle == UrlIdle /\ FetchIdle /\ CleanIdle /\ StoreIdle

\* Sequences of full pipeline runs.
Init == PipelineInit /\ DiscoveryIdle /\ CrawlIdle /\ SchedInit /\ ExtraIdle

Next == PipelineNext

Spec == Init /\ [][Next]_vars

\* One run of get_latest_vehicle_links, page by page.
InitDiscovery == DiscoveryInit /\ CrawlIdle /\ PipelineIdle /\ SchedInit /\ ExtraIdle

SpecDiscovery == InitDiscovery /\ [][DiscoveryNext]_vars

\* One run of get_latest_vehicle_links over a given source.
InitCrawl == CrawlInit /\ DiscoveryIdle /\ PipelineIdle /\ SchedInit /\ ExtraIdle

SpecCrawl == InitCrawl /\ [][CrawlNext]_vars

\* The scheduler thread and the API requests, triggering pipeline runs.
InitSched == SchedInit /\ DiscoveryIdle /\ CrawlIdle /\ PipelineIdle /\ ExtraIdle

SpecSched == InitSched /\ [][SchedNext]_vars

\* One anchor of a results page against one line of the known links file.
InitUrl ==
    /\ UrlInit /\ FetchIdle /\ CleanIdle /\ StoreIdle
    /\ DiscoveryIdle /\ CrawlIdle /\ PipelineIdle /\ SchedInit

SpecUrl == InitUrl /\ [][UrlNext]_vars

\* One batch of process_urls_conservatively, request by request.
InitFetch ==
    /\ FetchInit /\ UrlIdle /\ CleanIdle /\ StoreIdle
    /\ DiscoveryIdle /\ CrawlIdle /\ PipelineIdle /\ SchedInit

SpecFetch == InitFetch /\ [][FetchNext]_vars

\* scrape_links over any list of new links.
InitLinks ==
    /\ LinksInit /\ DiscoveryIdle /\ CrawlIdle /\ SchedInit /\ ExtraIdle

SpecLinks == InitLinks /\ [][LinksNext]_vars

\* One store handler and the operations called on it.
InitStore ==
    /\ StoreInit /\ DiscoveryIdle /\ CrawlIdle /\ SchedInit
    /\ UrlIdle /\ FetchIdle /\ CleanIdle

SpecStore == InitStore /\ [][StoreNext]_vars

\* One batch of process_urls_conservatively, iteration by iteration.
InitBatch ==
    /\ BatchInit /\ UrlIdle /\ CleanIdle /\ StoreIdle
    /\ DiscoveryIdle /\ CrawlIdle /\ PipelineIdle /\ SchedInit

SpecBatch == InitBatch /\ [][BatchNext]_vars

\* clean_data on a raw file, then on its own output.
InitClean ==
    /\ CleanInit /\ UrlIdle /\ FetchIdle /\ StoreIdle
    /\ DiscoveryIdle /\ CrawlIdle /\ PipelineIdle /\ SchedInit

SpecClean == InitClean /\ [][CleanNext]_vars

\* -------------------------------------------------------------- properties
Finished == ppc \in {"returned", "raised"}

\* Run summaries of the current run in the scraping_stats collection.
StoredThisRun ==
    Cardinality({i \in 1..Len(stats_coll) : stats_coll[i].id = run_no})

\* C1: a link that is in the KnownLinkSet loaded at the start of a run is
\* never among the URLs handed to the fetch stage of that run.
C1_KnownLinkNeverFetched ==
    \A i \in 1..Len(urls) : urls[i] \notin loaded_links

\* C2: for a newest-first source, in a discovery run that ends by reaching
\* target_matches, every link that is on a crawled page before the first
\* known link and is not known is in the returned new_links.
C2_NewBeforeFirstKnownReturned ==
    (/\ crawl # <<>>
     /\ crawl[1].why = "target"
     /\ NewestFirst(Flatten(src_feed, Len(src_feed)), src_known))
    => \A i \in 1..Len(Crawled) :
          (\A j \in 1..i : Crawled[j] \notin src_known)
          => InSeq(Crawled[i], crawl[1].new)

\* C3: at most one pipeline run executes at any time, whether it was started
\* by the scheduler or by one of the manual API triggers.
C3_AtMostOnePipelineRun == PipelineRunsExecuting <= 1

\* C4 as stated: every invocation of run_full_pipeline has stored its run
\* summary exactly once when it ends, connected or not.
C4_StoredExactlyOnce == Finished => StoredThisRun = 1

\* C4 as amended: every invocation of run_full_pipeline, completed or failed,
\* calls save_scraping_stats exactly once; the summary is stored once when
\* that call returned True, not at all when the store is disconnected or the
\* insert failed, and never twice.
C4_SaveAttemptedExactlyOnce ==
    /\ save_calls <= 1
    /\ StoredThisRun <= 1
    /\ Finished =>
          /\ save_calls = 1
          /\ StoredThisRun = (IF save_result = "True" THEN 1 ELSE 0)
          /\ ~connected => StoredThisRun = 0
          /\ save_result = "True" => connected

C4_Witness ==
    /\ ppc = "returned"
    /\ ~connected
    /\ save_calls = 1
    /\ StoredThisRun = 0

\* C5: when a stage raised, the run summary has status failed, the text of
\* the exception and an end time, save_scraping_stats was called, and the
\* call leaves with the exception the stage raised, also when saving the
\* failed summary failed.
C5_FailureRecordedAndReraised ==
    ppc = "raised" =>
        /\ stats.status = "failed"
        /\ stats.error = pending_exc
        /\ stats.end_time
        /\ save_calls >= 1
        /\ pending_exc # "none"
        /\ raised = pending_exc

C5_Witness ==
    /\ ppc = "raised"
    /\ raised = "IOError"
    /\ connected
    /\ save_result = "False"
    /\ StoredThisRun = 0

\* Pages loaded (driver.get) so far by the running discovery.
PagesLoaded == IF dpc = "retry" THEN current_page ELSE current_page - 1

\* Decreases with every step of a discovery run.
DiscoveryRank ==
    CASE dpc = "init" -> 2 * (max_pages + 1) + 2
      [] dpc = "paging" -> 2 * (max_pages + 1 - current_page) + 1
      [] dpc = "retry" -> 2 * (max_pages + 1 - current_page)
      [] OTHER -> 0

\* C6: a discovery run ends: every step brings it closer to its return, it
\* loads at most max_pages pages, loads a page only while fewer than
\* target_matches links are matched, and at the page ceiling it returns what
\* it accumulated.
C6_DiscoveryTerminates ==
    /\ [](/\ PagesLoaded <= max_pages
          /\ DiscoveryRank >= 0
          /\ dpc # "returned" => ~TargetReached(matched_links, target_matches)
          /\ outcome = "ceiling" => dpc = "returned")
    /\ [][/\ DiscoveryRank' < DiscoveryRank
          /\ PagesLoaded' > PagesLoaded =>
                /\ PagesLoaded' = PagesLoaded + 1
                /\ Len(matched_links) < target_matches
          /\ outcome' = "ceiling" =>
                /\ PagesLoaded = max_pages
                /\ result' = <<all_new_links, matched_links>>]_vars

C6_Witness ==
    /\ dpc = "returned"
    /\ outcome = "ceiling"
    /\ result[1] # <<>>

\* C7: with a KnownLinkSet that holds every link the source lists, a run
\* with target_matches = 1 ends on the first page with one matched link, and
\* its new_links hold nothing but links met before that match.
C7_IdempotentDiscovery ==
    (/\ crawl # <<>>
     /\ src_target = 1
     /\ src_feed # <<>>
     /\ src_feed[1] # <<>>
     /\ Range(Flatten(src_feed, Len(src_feed))) \subseteq src_known)
    => /\ crawl[1].page = 1
       /\ Len(crawl[1].matched) = 1
       /\ ~InSeq(crawl[1].matched[1], crawl[1].new)

\* C8: every link in the main links file stays in it.
C8_KnownLinksAppendOnly ==
    [][Range(main_links_file) \subseteq Range(main_links_file')]_vars

\* C9: when scrape_links has written the main links file, the file holds no
\* link that the run counted as a match.
C9_MatchedLinkNotWritten ==
    (ppc = "data" /\ new_links # <<>>)
    => Range(main_links_file) \cap Range(run_matched) = {}

\* C10: after scrape_links the new-links file holds exactly the new_links of
\* that run, so the fetch stage reads the links of its own run.
C10_NewLinksFileIsThisRun ==
    /\ ppc = "data" => new_links_file = new_links
    /\ ppc \in {"clean", "finish"} => urls = new_links

\* C11: a listing URL extracted from a page matches a stored known link
\* whenever the two texts are equal up to their first "?", whatever query
\* either of them carried.
FirstQuery(text) ==
    IF InSeq("?", text)
    THEN CHOOSE i \in 1..Len(text) :
            text[i] = "?" /\ \A j \in 1..(i - 1) : text[j] # "?"
    ELSE Len(text) + 1

BeforeQuery(text) == SubSeq(text, 1, FirstQuery(text) - 1)

C11_QueryStringIgnored ==
    (/\ upc = "done"
     /\ vehicle_links # <<>>
     /\ file_links # {}
     /\ BeforeQuery(href) = BeforeQuery(line))
        => vehicle_links[1] \in file_links

C11_Witness ==
    /\ upc = "done"
    /\ vehicle_links # <<>>
    /\ file_links # {}
    /\ BeforeQuery(href) = BeforeQuery(line)
    /\ href # line
    /\ InSeq("?", href)
    /\ href[1] = Host
    /\ vehicle_links[1] \in file_links

\* C12: the stages are called in the order scrape_links, scrape_vehicles,
\* clean_data, update_database, each after the previous one has returned and
\* its result is in the summary; once a stage has raised no further stage is
\* called in that run; the run after a failed one starts again at the first
\* stage with a new summary and nothing of the failure in it.
StageOrder == <<"scrape_links", "scrape_vehicles", "clean_data",
                "update_database">>

StepKeys == <<"link_scraping", "data_scraping", "data_cleaning",
              "mongodb_update">>

C12_InOrder ==
    /\ Len(invoked) <= Len(StageOrder)
    /\ invoked = SubSeq(StageOrder, 1, Len(invoked))
    /\ \A k \in 1..Len(invoked) :
          \A j \in 1..(k - 1) : StepKeys[j] \in stats.steps

C12_ShortCircuit ==
    (ppc \in {"except", "raised"} /\ run_no' = run_no) => invoked' = invoked

C12_NextRunFresh ==
    (ppc = "raised" /\ run_no' # run_no) =>
        /\ ppc' = "links"
        /\ invoked' = <<>>
        /\ stats' = NewStats
        /\ pending_exc' = "none"
        /\ raised' = "none"

C12_StagesInOrderShortCircuit ==
    /\ []C12_InOrder
    /\ [][C12_ShortCircuit /\ C12_NextRunFresh]_vars

C12_Witness ==
    /\ run_no = 2
    /\ \E i \in 1..Len(stats_coll) :
          stats_coll[i] = [id |-> 1, status |-> "failed"]
    /\ invoked = StageOrder
    /\ ppc = "returned"

\* C13: when scrape_vehicles returned no output file, clean_data and
\* update_database are not called in that run and the run ends with status
\* completed; update_database is called only when clean_data returned an
\* output file.
C13_SkippedStagesStillCompleted ==
    /\ ("data_scraping" \in stats.steps /\ "data_scraping" \notin output_files)
          => /\ ~InSeq("clean_data", invoked)
             /\ ~InSeq("update_database", invoked)
             /\ ppc \in {"finish", "returned"}
             /\ ppc = "returned" => stats.status = "completed"
    /\ (ppc = "mongo" \/ InSeq("update_database", invoked))
          => "data_cleaning" \in output_files

C13_Witness ==
    /\ ppc = "returned"
    /\ invoked = <<"scrape_links", "scrape_vehicles">>
    /\ "data_scraping" \in stats.steps
    /\ "data_scraping" \notin output_files
    /\ stats.status = "completed"
    /\ new_links # <<>>

C15_RateLimitAndBlock ==
    /\ Len(responses) <= max_attempts
    /\ responses = <<"429", "429", "429">> =>
          fpc # "call" /\ fetch_result.kind = "None"
    /\ (responses # <<>> /\ responses[1] = "403") =>
          Len(responses) = 1 /\ fpc # "call" /\ fetch_result.kind = "None"

C15_Witness ==
    /\ responses = <<"429", "429", "429">>
    /\ fetch_result.kind = "None"
    /\ failed = 1
    /\ fpc = "next"

\* The fixed schema of a raw vehicle record, by the keys of the dictionary.
Schema == {"title", "subtitle", "price_raw", "price_eur", "mileage",
           "transmission", "emission_class", "fuel", "year",
           "general_information__BRAND", "general_information__model",
           "energy_consumption__emission_class",
           "energy_consumption__co2_emissions",
           "general_information__warranty", "vehicle_history__mileage",
           "vehicle_history__year", "link", "date",
           "general_information__subtitle"}

OutputOf(st, rows) == IF st.output_file THEN rows ELSE <<>>

RowPassesAll(r) ==
    /\ 5000 <= r.price.n /\ r.price.n <= 150000
    /\ r.transmission \in {"automatic", "manual"}
    /\ 0 <= r.mileage.n /\ r.mileage.n < 200000
    /\ r.year.n >= 2010
    /\ 0 <= r.co2.n /\ r.co2.n <= 2 * 300
    /\ r.emission_class \in allowed_emission_classes

C17_OutputSatisfiesAllFilters ==
    /\ \A i \in 1..Len(OutputOf(clean_stats, output_rows)) :
          /\ RowPassesAll(output_rows[i])
          /\ raw_batch[output_rows[i].id].price.k # "nd"
          /\ raw_batch[output_rows[i].id].mileage.k # "nd"
          /\ raw_batch[output_rows[i].id].year.k # "nd"
    /\ \A i \in 1..Len(OutputOf(reclean_stats, reoutput_rows)) :
          RowPassesAll(reoutput_rows[i])

C17_Witness ==
    /\ npc = "cleaned"
    /\ columns = FilterColumns
    /\ clean_stats.status = "success"
    /\ Len(raw_batch) = 3
    /\ Len(output_rows) = 1
    /\ raw_batch[output_rows[1].id].year = Text(2010)
    /\ \E i \in 1..Len(raw_batch) : raw_batch[i].year = Text(2009)
    /\ \E i \in 1..Len(raw_batch) : raw_batch[i].price = Nd

\* C18: when one of the columns transmission, mileage, CO2 or emission
\* class is absent from the raw batch, clean_data returns a success result
\* with an output file.
C18_AbsentColumnSkipped ==
    (npc # "start" /\ \E c \in CountedColumns : c \notin columns) =>
        clean_stats.status = "success" /\ clean_stats.output_file

\* C19: cleaning the normalizer output again gives the same rows with the
\* same values.
SameValues(r, q) ==
    /\ r.id = q.id
    /\ r.price.n = q.price.n
    /\ r.transmission = q.transmission
    /\ r.mileage.n = q.mileage.n
    /\ r.year.n = q.year.n
    /\ r.co2.n = q.co2.n
    /\ r.emission_class = q.emission_class

C19_SecondPassFixedPoint ==
    npc = "recleaned" =>
        /\ reclean_stats.status = "success"
        /\ Len(reoutput_rows) = Len(output_rows)
        /\ \A i \in 1..Len(output_rows) :
              SameValues(output_rows[i], reoutput_rows[i])

\* C20: the rows that survive the filters in sequence are the rows of the
\* batch that no filter rejects when it is applied alone to the whole batch.
Ids(rows) == {rows[i].id : i \in 1..Len(rows)}

KeptAlone ==
    Ids(PriceStep(raw_batch, columns))
    \cap Ids(TransmissionStep(raw_batch, columns))
    \cap Ids(MileageStep(raw_batch, columns))
    \cap Ids(YearStep(raw_batch, TRUE))
    \cap Ids(Co2Step(raw_batch, columns))
    \cap Ids(EmissionStep(raw_batch, columns))

C20_SurvivorsAreBatchMinusUnion ==
    (npc = "cleaned" /\ clean_stats.status = "success") =>
        Ids(output_rows) = KeptAlone

\* C21: the corrected price of a raw price is its digits without the last
\* two when they end in "15", else without the last one when they end in
\* "5", else as they are; a row is kept by the price filter exactly when
\* the corrected price lies in [5000, 150000], and a row of the output
\* carries the corrected price.
RECURSIVE DecDigits(_)
DecDigits(n) == IF n < 10 THEN <<n>> ELSE Append(DecDigits(n \div 10), n % 10)

RECURSIVE DecValue(_)
DecValue(d) ==
    IF d = <<>> THEN 0
    ELSE 10 * DecValue(SubSeq(d, 1, Len(d) - 1)) + d[Len(d)]

EndsWith(d, tail) ==
    /\ Len(d) >= Len(tail)
    /\ SubSeq(d, Len(d) - Len(tail) + 1, Len(d)) = tail

CorrectedDigits(n) ==
    LET d == DecDigits(n) IN
    IF EndsWith(d, <<1, 5>>) THEN SubSeq(d, 1, Len(d) - 2)
    ELSE IF EndsWith(d, <<5>>) THEN SubSeq(d, 1, Len(d) - 1)
    ELSE d

PriceKept(cell) ==
    /\ cell.k = "text"
    /\ CorrectedDigits(cell.n) # <<>>
    /\ DecValue(CorrectedDigits(cell.n)) \in 5000..150000

BatchCo2 == [i \in 1..Len(raw_batch) |-> FirstNumber(raw_batch[i].co2)]

C22_MissingCo2GetsBatchMedian ==
    (npc = "cleaned" /\ clean_stats.status = "success") =>
        \A j \in 1..Len(output_rows) :
            BatchCo2[output_rows[j].id] = NaN =>
                output_rows[j].co2.n = Median2(BatchCo2)

C25_OneRetryThenStop ==
    [][/\ dpc' = "retry" =>
             /\ dpc = "paging"
             /\ UNCHANGED <<all_new_links, matched_links, current_page>>
       /\ dpc = "retry" => dpc' \in {"paging", "returned"}
       /\ (dpc = "retry" /\ dpc' = "paging") =>
             current_page' = current_page + 1
       /\ outcome' = "no_links" =>
             /\ dpc = "retry"
             /\ dpc' = "returned"
             /\ result' = <<all_new_links, matched_links>>]_vars

C25_Witness ==
    /\ dpc = "returned"
    /\ outcome = "no_links"
    /\ Len(result[1]) >= 2
    /\ driver = "closed"

\* C30: at every point of a discovery run, and in what it returns, the new
\* links and the matched links have no duplicates, every matched link is in
\* the KnownLinkSet, the new links that are in the KnownLinkSet are exactly
\* the matched links, and there are at most target_matches matched links.
DiscoveryListsSound(new, matched) ==
    /\ IsUnique(new)
    /\ IsUnique(matched)
    /\ Range(matched) \subseteq existing_links
    /\ Range(new) \cap existing_links = Range(matched)
    /\ Len(matched) <= target_matches

RateOrTimeout(rs) == \A i \in 1..Len(rs) : rs[i] \in {"429", "Timeout"}

C26_MixedRetriesBounded ==
    /\ Len(responses) <= 3
    /\ (responses # <<>> /\ RateOrTimeout(responses)) =>
          IF Len(responses) < 3
          THEN fpc = "call" /\ attempt = Len(responses) + 1
          ELSE fpc # "call" /\ fetch_result.kind = "None"
    /\ (responses # <<>>
          /\ RateOrTimeout(SubSeq(responses, 1, Len(responses) - 1))
          /\ responses[Len(responses)] = "200") =>
          fpc # "call" /\ fetch_result.kind = "results"
    /\ responses = <<"Timeout", "Timeout", "Timeout">> =>
          fetch_result.kind = "None"

C26_Witness ==
    /\ responses = <<"Timeout", "429", "Timeout">>
    /\ fetch_result.kind = "None"
    /\ url_index = 1
    /\ failed = 1
    /\ successful = 0
    /\ fpc = "next"

\* C27 as stated: a checkpoint file is written exactly in the iterations in
\* which the number of successful fetches reaches a multiple of 20.
C27_CheckpointOnSuccessCount ==
    [][(temp_files' # temp_files) <=>
           (successful' = successful + 1
            /\ successful' % checkpoint_every = 0)]_vars

\* C27, amended: a checkpoint file is written exactly at the end of the
\* iterations whose number in the batch is a multiple of 20, successful and
\* failed fetches counted alike, provided one fetch at least has succeeded
\* by then; the file carries the number of the iteration.
IterationEnds ==
    successful' + failed' = successful + failed + 1

C27_CheckpointEveryTwentyUrls ==
    [][/\ (temp_files' # temp_files) <=>
              (/\ IterationEnds
               /\ url_index' % checkpoint_every = 0
               /\ successful' > 0)
       /\ temp_files' \subseteq temp_files \cup {url_index'}]_vars

C27_Witness ==
    /\ url_index = 41
    /\ successful = 20
    /\ failed = 21
    /\ temp_files = {40}
    /\ fpc = "next"

\* C28: a scrape_links call that found at least one new link leaves the
\* main and the latest links file holding the first three of the new links
\* (all of them when there are fewer), in their order and nothing else; a
\* call that found none leaves both files as they were.
FirstThree(links) ==
    [i \in 1..(IF Len(links) < 3 THEN Len(links) ELSE 3) |-> links[i]]

C28_LinkFilesHoldFirstThree ==
    [][(ppc = "links" /\ ppc' = "data") =>
           IF new_links' # <<>>
           THEN /\ main_links_file' = FirstThree(new_links')
                /\ latest_links_file' = FirstThree(new_links')
           ELSE UNCHANGED <<main_links_file, latest_links_file>>]_vars

C28_Witness ==
    /\ ppc = "data"
    /\ Len(new_links) = 4
    /\ Len(main_links_file) = 3
    /\ latest_links_file = main_links_file
    /\ main_links_file = SubSeq(new_links, 1, 3)
    /\ new_links_file = new_links

\* C29: an intermediate CSV file is deleted, or the new-links or the
\* latest-links file emptied, only by a store update that ends in success;
\* a store update that is skipped because the store is not connected, or
\* that ends in an error, leaves every file as it was.
Removed(file) == file # <<>> /\ file' = <<>>

C29_CleanupOnlyAfterStoreUpdate ==
    [][/\ (\/ Removed(raw_csv) \/ Removed(cleaned_csv)
           \/ Removed(new_links_file) \/ Removed(latest_links_file)) =>
              (ppc = "mongo" /\ mongo_status' = "success")
       /\ (ppc = "mongo" /\ mongo_status' \in {"skipped", "error"}) =>
              UNCHANGED <<files, raw_csv, cleaned_csv>>
       /\ (ppc = "mongo" /\ ~connected) => mongo_status' = "skipped"]_vars

C29_Witness ==
    /\ ppc = "finish"
    /\ connected
    /\ mongo_status = "error"
    /\ raw_csv # <<>>
    /\ cleaned_csv # <<>>
    /\ new_links_file # <<>>
    /\ latest_links_file # <<>>
    /\ run_no = 2

\* C24: the handler tries the TLS connection first and the fallback
\* connection exactly once, and only after the TLS connection failed; it is
\* connected exactly when its last try succeeded.  While it is not
\* connected every operation returns its skipped or empty value and the
\* store, the intermediate files and the link files stay as they are.
ConnectOnce ==
    hpc = "ready" =>
        /\ Len(connect_tries) \in {1, 2}
        /\ connect_tries[1].mode = "tls"
        /\ connect_tries[1].ok <=> Len(connect_tries) = 1
        /\ Len(connect_tries) = 2 => connect_tries[2].mode = "fallback"
        /\ connected <=> connect_tries[Len(connect_tries)].ok

SkippedValues ==
    {[op |-> "update_database", value |-> "skipped"],
     [op |-> "save_scraping_stats", value |-> "False"],
     [op |-> "get_latest_scrape_stats", value |-> "None"],
     [op |-> "get_scraping_stats", value |-> "[]"],
     [op |-> "get_collection_stats", value |-> "not connected"]}

C24_FallbackOnceThenSkips ==
    [][/\ ConnectOnce'
       /\ (hpc = "ready" /\ ~connected) =>
             /\ op_return' \in SkippedValues
             /\ UNCHANGED <<files, collection, stats_coll, raw_csv,
                            cleaned_csv, connected, connect_tries>>]_vars

C24_Witness ==
    /\ hpc = "ready"
    /\ ~connected
    /\ connect_tries = <<[mode |-> "tls", ok |-> FALSE],
                         [mode |-> "fallback", ok |-> FALSE]>>
    /\ op_return = [op |-> "update_database", value |-> "skipped"]
    /\ cleaned_csv # <<>>
    /\ raw_csv # <<>>
    /\ latest_links_file # <<>>
    /\ new_links_file # <<>>

====
